---------------------------- MODULE Spec2Model ----------------------------
(***************************************************************************)
(* Model of audible-downloader.py: the single-book acquisition pipeline    *)
(* (process_book), the catalog browser (browse_and_download_mode) and the  *)
(* command-line entry point (main).                                        *)
(*                                                                         *)
(* Text (identifiers, file names, listing output) is a sequence of         *)
(* one-character strings, so that len, startswith, split, strip, the stem  *)
(* regex and the glob patterns are computed character by character.        *)
(* The output directory is the set of file names that exist in it.         *)
(* The external programs (audible, ffmpeg) and the file system's refusal   *)
(* to delete a file are the environment: their outcomes are chosen         *)
(* nondeterministically.                                                   *)
(***************************************************************************)
EXTENDS Integers, Sequences, FiniteSets, TLC

VARIABLES
    pc,            \* position of the program
    exit_code,     \* process outcome: NotExited while running, then 0 or 1
    error,         \* which failure ended the run ("" while none)
    entry,         \* how process_book was reached: "direct", "menu", "browse"
    asin,          \* process_book's asin argument
    keep_files,    \* the --keep-files flag
    dir,           \* names of the files that exist in output_dir
    empty,         \* the existing files whose size is 0
    vdata,         \* content of each voucher file (meaningful while it exists)
    cmds,          \* external commands launched so far, in order
    download,      \* how the download call ended and what it wrote
    aaxc_file,     \* process_book's local aaxc_file
    credentials,   \* result of get_aaxc_credentials
    output_file,   \* process_book's local output_file
    dec,           \* what the decrypt call saw (before: the target existed
                   \* when ffmpeg was launched) and returned
    verified,      \* result of verify_decrypted_file ("none" before the call)
    cleanup,       \* what cleanup_files was given, tried and removed
    unlinked,      \* files the program itself deleted
    warnings,      \* yellow warnings printed by get_related_files
    library_data,  \* the browser's entry list
    page_size,     \* the browser's page size
    page_num,      \* the browser's page index
    shown,         \* the page most recently rendered
    user_input,    \* the browser's last answer read at the prompt, lowercased
    orch_calls,    \* process_book invocations made by the browser
    sorting,       \* the parsed listing, the configured default_sort and the
                   \* operator's answer to "Sort by ...?"
    arg,           \* argument of a function exercised on its own
    ret            \* what that function returned

vars == <<pc, exit_code, error, entry, asin, keep_files, dir, empty, vdata, cmds,
          download, user_input, aaxc_file, credentials, output_file, dec, verified, cleanup, unlinked,
          warnings, library_data, page_size, page_num, shown, orch_calls, sorting,
          arg, ret>>

pipeline_vars == <<asin, keep_files, download, aaxc_file, credentials, output_file, dec,
                   verified, cleanup, unlinked, warnings>>
browser_vars == <<library_data, page_size, page_num, shown, user_input, orch_calls,
                  sorting>>
fs_vars == <<dir, empty, vdata>>
fn_vars == <<arg, ret>>

-----------------------------------------------------------------------------
(* Text helpers *)

StartsWith(s, p) == Len(s) >= Len(p) /\ SubSeq(s, 1, Len(p)) = p
EndsWith(s, p) == Len(s) >= Len(p) /\ SubSeq(s, Len(s) - Len(p) + 1, Len(s)) = p

\* 1-based index of the last occurrence of character c in s, 0 when absent
RFind(s, c) ==
    LET hits == {i \in 1..Len(s) : s[i] = c}
    IN IF hits = {} THEN 0 ELSE CHOOSE i \in hits : \A j \in hits : j <= i

\* 1-based index of the first occurrence of character c in s, 0 when absent
Find(s, c) ==
    LET hits == {i \in 1..Len(s) : s[i] = c}
    IN IF hits = {} THEN 0 ELSE CHOOSE i \in hits : \A j \in hits : i <= j

Zeros(n) == [i \in 1..n |-> "0"]

\* A deterministic listing of a finite set of file names
RECURSIVE SetToSeq(_)
SetToSeq(S) ==
    IF S = {} THEN <<>>
    ELSE LET x == CHOOSE y \in S : TRUE IN <<x>> \o SetToSeq(S \ {x})

Range(s) == {s[i] : i \in 1..Len(s)}

NotExited == -1
NoPath == <<>>

-----------------------------------------------------------------------------
(* pathlib *)

\* PurePath.suffix: from the last dot, unless that dot starts or ends the name
suffix(name) ==
    LET i == RFind(name, ".")
    IN IF 1 < i /\ i < Len(name) THEN SubSeq(name, i, Len(name)) ELSE <<>>

stem(name) ==
    LET i == RFind(name, ".")
    IN IF 1 < i /\ i < Len(name) THEN SubSeq(name, 1, i - 1) ELSE name

with_suffix(name, suf) == stem(name) \o suf

EXT_AAXC == <<".", "a", "a", "x", "c">>
EXT_VOUCHER == <<".", "v", "o", "u", "c", "h", "e", "r">>
EXT_M4B == <<".", "m", "4", "b">>
CHAPTERS_JSON == <<"-", "c", "h", "a", "p", "t", "e", "r", "s", ".", "j", "s", "o", "n">>
MARKER_AAX == <<"-", "A", "A", "X">>
MARKER_LC == <<"-", "L", "C">>

-----------------------------------------------------------------------------
(* Identifiers the operator may give, and the books the download client    *)
(* knows.  B1 and B2 are well-formed; the others each break one condition  *)
(* of validate_asin.                                                       *)

B1 == <<"B">> \o Zeros(8) \o <<"1">>
B2 == <<"B">> \o Zeros(8) \o <<"2">>
ASIN_SHORT == <<"B">> \o Zeros(7) \o <<"1">>
ASIN_LONG == <<"B">> \o Zeros(9) \o <<"1">>
ASIN_DIGITS == <<"1">> \o Zeros(8) \o <<"3">>
ASIN_LOWER == <<"b">> \o Zeros(8) \o <<"1">>
ASIN_ONLY_B == <<"B">>

AsinInputs == {B1, B2, ASIN_SHORT, ASIN_LONG, ASIN_DIGITS, ASIN_LOWER, ASIN_ONLY_B}

TITLE1 == <<"b">>
TITLE2 == <<"b", "c">>

\* The files the download client produces for a book (spec section 6):
\* artifact, voucher, chapters metadata, cover
BookFiles(a) ==
    IF a = B1
    THEN [aaxc |-> TITLE1 \o MARKER_AAX \o EXT_AAXC,
          voucher |-> TITLE1 \o MARKER_AAX \o EXT_VOUCHER,
          chapters |-> TITLE1 \o CHAPTERS_JSON,
          cover |-> TITLE1 \o <<"_", "5", ".", "j", "p", "g">>]
    ELSE [aaxc |-> TITLE2 \o MARKER_LC \o EXT_AAXC,
          voucher |-> TITLE2 \o MARKER_LC \o EXT_VOUCHER,
          chapters |-> TITLE2 \o CHAPTERS_JSON,
          cover |-> TITLE2 \o <<".", "J", "P", "G">>]

FilesOf(a) == {BookFiles(a).aaxc, BookFiles(a).voucher, BookFiles(a).chapters,
               BookFiles(a).cover}
OutputOf(a) == with_suffix(BookFiles(a).aaxc, EXT_M4B)
VoucherFiles == {BookFiles(B1).voucher, BookFiles(B2).voucher}

-----------------------------------------------------------------------------
(* Voucher content.  A voucher is a text file; what json.loads and the     *)
(* nested .get calls make of it depends on: whether it parses and is an    *)
(* object (top), whether content_license (cl) and license_response (lr)    *)
(* are absent, present but not an object, or an object, and the values of  *)
(* key and iv (None when the field is absent or null).                     *)

None == "<None>"
KEY == "AB12"
IV == "CD34"

Voucher(top, cl, lr, key, iv) == [top |-> top, cl |-> cl, lr |-> lr, key |-> key, iv |-> iv]
NoData == Voucher("nofile", "absent", "absent", None, None)
GoodVoucher == Voucher("obj", "obj", "obj", KEY, IV)
\* A voucher file written by the download client and not read since
Unread == Voucher("unread", "absent", "absent", None, None)

VoucherShapes ==
    {Voucher("notjson", "absent", "absent", None, None),
     Voucher("nonobj", "absent", "absent", None, None),
     Voucher("obj", "absent", "absent", None, None),
     Voucher("obj", "nonobj", "absent", None, None),
     Voucher("obj", "obj", "absent", None, None),
     Voucher("obj", "obj", "nonobj", None, None)}
    \cup {Voucher("obj", "obj", "obj", k, i) : k \in {None, "", KEY}, i \in {None, "", IV}}

-----------------------------------------------------------------------------
(* Core functions *)

\* Mutant: the length is only bounded from above
validate_asin_at_most_ten(a) == Len(a) <= 10 /\ StartsWith(a, <<"B">>)

validate_asin(a) == Len(a) = 10 /\ StartsWith(a, <<"B">>)

\* get_aaxc_credentials: the value returned or the exception raised
Raised(exc, msg) == [ok |-> FALSE, exc |-> exc, msg |-> msg, key |-> None, iv |-> None]
Returned(key, iv) == [ok |-> TRUE, exc |-> "", msg |-> "", key |-> key, iv |-> iv]
NoCredentials == Raised("", "")

falsy(x) == x = None \/ x = ""

\* Mutant: "not key and not iv"
get_aaxc_credentials_and(d, vd, voucher_file) ==
    IF voucher_file \notin d
    THEN Raised("ClickException", "Voucher file not found")
    ELSE LET v == vd[voucher_file] IN
         IF v.top = "notjson" THEN Raised("JSONDecodeError", "")
         ELSE IF v.top = "nonobj" THEN Raised("AttributeError", "")
         ELSE IF v.cl = "nonobj" THEN Raised("AttributeError", "")
         ELSE IF v.cl = "obj" /\ v.lr = "nonobj" THEN Raised("AttributeError", "")
         ELSE LET has == v.cl = "obj" /\ v.lr = "obj"
                  key == IF has THEN v.key ELSE None
                  iv == IF has THEN v.iv ELSE None
              IN IF falsy(key) /\ falsy(iv)
                 THEN Raised("ClickException", "Could not find key/iv in voucher file")
                 ELSE Returned(key, iv)

get_aaxc_credentials(d, vd, voucher_file) ==
    IF voucher_file \notin d
    THEN Raised("ClickException", "Voucher file not found")
    ELSE LET v == vd[voucher_file] IN
         IF v.top = "notjson" THEN Raised("JSONDecodeError", "")
         ELSE IF v.top = "nonobj" THEN Raised("AttributeError", "")
         ELSE IF v.cl = "nonobj" THEN Raised("AttributeError", "")
         ELSE IF v.cl = "obj" /\ v.lr = "nonobj" THEN Raised("AttributeError", "")
         ELSE LET has == v.cl = "obj" /\ v.lr = "obj"
                  key == IF has THEN v.key ELSE None
                  iv == IF has THEN v.iv ELSE None
              IN IF falsy(key) \/ falsy(iv)
                 THEN Raised("ClickException", "Could not find key/iv in voucher file")
                 ELSE Returned(key, iv)

\* Mutant: the size of the output is not looked at
decrypt_result_any_size(raised, returncode, exists, size, target) ==
    IF raised THEN [success |-> FALSE, path |-> NoPath]
    ELSE IF returncode # 0 THEN [success |-> FALSE, path |-> NoPath]
    ELSE IF ~exists THEN [success |-> FALSE, path |-> NoPath]
    ELSE [success |-> TRUE, path |-> target]

\* decrypt_audiobook's verdict on what the ffmpeg call left behind
decrypt_result(raised, returncode, exists, size, target) ==
    IF raised THEN [success |-> FALSE, path |-> NoPath]
    ELSE IF returncode # 0 THEN [success |-> FALSE, path |-> NoPath]
    ELSE IF ~exists \/ size = 0 THEN [success |-> FALSE, path |-> NoPath]
    ELSE [success |-> TRUE, path |-> target]

\* find_aaxc_file: the files glob("*.aaxc") yields; next(iter(...)) takes the
\* first in directory order, which is whichever the file system lists first
glob_aaxc(d) == {f \in d : EndsWith(f, EXT_AAXC)}

\* Mutant: the stem is cut at its last marker
marker_start_last(s) ==
    LET hits == {i \in 1..Len(s) :
                    \/ StartsWith(SubSeq(s, i, Len(s)), MARKER_AAX)
                    \/ StartsWith(SubSeq(s, i, Len(s)), MARKER_LC)}
    IN IF hits = {} THEN 0 ELSE CHOOSE i \in hits : \A j \in hits : j <= i

\* re.search(r'(-AAX.*|-LC.*)$', stem).start(), 1-based; 0 when no match
marker_start(s) ==
    LET hits == {i \in 1..Len(s) :
                    \/ StartsWith(SubSeq(s, i, Len(s)), MARKER_AAX)
                    \/ StartsWith(SubSeq(s, i, Len(s)), MARKER_LC)}
    IN IF hits = {} THEN 0 ELSE CHOOSE i \in hits : \A j \in hits : i <= j

base_name_of(s) == IF marker_start(s) = 0 THEN s ELSE SubSeq(s, 1, marker_start(s) - 1)

\* Mutant: the pattern is f"{base_name}*.jpg"
glob_jpg_lowercase(d, base) ==
    {f \in d : /\ StartsWith(f, base)
               /\ Len(f) >= Len(base) + 4
               /\ SubSeq(f, Len(f) - 3, Len(f)) = <<".", "j", "p", "g">>}

\* fnmatch of f"{base_name}*.[jJ][pP][gG]" and f"{base_name}*.[jJ][pP][eE][gG]"
glob_jpg(d, base) ==
    {f \in d : /\ StartsWith(f, base)
               /\ Len(f) >= Len(base) + 4
               /\ f[Len(f) - 3] = "."
               /\ f[Len(f) - 2] \in {"j", "J"}
               /\ f[Len(f) - 1] \in {"p", "P"}
               /\ f[Len(f)] \in {"g", "G"}}
glob_jpeg(d, base) ==
    {f \in d : /\ StartsWith(f, base)
               /\ Len(f) >= Len(base) + 5
               /\ f[Len(f) - 4] = "."
               /\ f[Len(f) - 3] \in {"j", "J"}
               /\ f[Len(f) - 2] \in {"p", "P"}
               /\ f[Len(f) - 1] \in {"e", "E"}
               /\ f[Len(f)] \in {"g", "G"}}

\* Mutant: the list is returned without the f.exists() filter
get_related_files_unfiltered(d, aaxc) ==
    LET s == stem(aaxc)
        base_name == base_name_of(s)
        related == <<aaxc, with_suffix(aaxc, EXT_VOUCHER), base_name \o CHAPTERS_JSON>>
                   \o SetToSeq(glob_jpg(d, base_name))
                   \o SetToSeq(glob_jpeg(d, base_name))
    IN [files |-> related,
        warned |-> IF marker_start(s) = 0 THEN 1 ELSE 0]

get_related_files(d, aaxc) ==
    LET s == stem(aaxc)
        base_name == base_name_of(s)
        related == <<aaxc, with_suffix(aaxc, EXT_VOUCHER), base_name \o CHAPTERS_JSON>>
                   \o SetToSeq(glob_jpg(d, base_name))
                   \o SetToSeq(glob_jpeg(d, base_name))
    IN [files |-> SelectSeq(related, LAMBDA f : f \in d),
        warned |-> IF marker_start(s) = 0 THEN 1 ELSE 0]

\* cleanup_files: unlink each listed file in turn; an unlink raises when the
\* file system refuses (failing) or the file is already gone, and the loop
\* goes on to the next file
RECURSIVE cleanup_loop(_, _, _)
cleanup_loop(files, failing, acc) ==
    IF files = <<>> THEN acc
    ELSE LET file == Head(files)
             raises == file \in failing \/ file \notin acc.dir
         IN cleanup_loop(Tail(files), failing,
                [dir |-> IF raises THEN acc.dir ELSE acc.dir \ {file},
                 attempted |-> Append(acc.attempted, file),
                 removed |-> IF raises THEN acc.removed ELSE acc.removed \cup {file},
                 warned |-> IF raises THEN acc.warned \cup {file} ELSE acc.warned])

\* Mutant: the try encloses the whole loop, so the first unlink that raises
\* ends the cleanup
RECURSIVE cleanup_loop_abort(_, _, _)
cleanup_loop_abort(files, failing, acc) ==
    IF files = <<>> THEN acc
    ELSE LET file == Head(files)
             raises == file \in failing \/ file \notin acc.dir
         IN IF raises
            THEN [acc EXCEPT !.attempted = Append(@, file), !.warned = @ \cup {file}]
            ELSE cleanup_loop_abort(Tail(files), failing,
                    [acc EXCEPT !.dir = @ \ {file}, !.attempted = Append(@, file),
                                !.removed = @ \cup {file}])

cleanup_files_abort(files_to_remove, failing, d) ==
    cleanup_loop_abort(files_to_remove, failing,
                       [dir |-> d, attempted |-> <<>>, removed |-> {}, warned |-> {}])

cleanup_files(files_to_remove, failing, d) ==
    cleanup_loop(files_to_remove, failing,
                 [dir |-> d, attempted |-> <<>>, removed |-> {}, warned |-> {}])

NoCleanup == [ran |-> FALSE, files |-> <<>>, failing |-> {}, attempted |-> <<>>,
              removed |-> {}, warned |-> {}]
NoDecrypt == [ran |-> FALSE, raised |-> FALSE, returncode |-> 0, before |-> FALSE,
              exists |-> FALSE, size |-> 0, success |-> FALSE, path |-> NoPath]

-----------------------------------------------------------------------------
(* The output directory when the program starts: fresh, or holding what an *)
(* earlier --keep-files run of another book left there.                    *)

NoSort == [listed |-> <<>>, sort_order |-> "", confirm |-> FALSE]
NoValue == <<>>
NoDownload == [outcome |-> "none", written |-> {}]
NoVouchers == [f \in VoucherFiles |-> NoData]

InitialDirs ==
    {[dir |-> {}, vdata |-> NoVouchers],
     [dir |-> FilesOf(B2) \cup {OutputOf(B2)},
      vdata |-> [NoVouchers EXCEPT ![BookFiles(B2).voucher] = GoodVoucher]]}

Init ==
    /\ pc = "main"
    /\ exit_code = NotExited
    /\ error = ""
    /\ entry = ""
    /\ asin = <<>>
    /\ keep_files = FALSE
    /\ \E d0 \in InitialDirs : dir = d0.dir /\ vdata = d0.vdata
    /\ empty = {}
    /\ cmds = <<>>
    /\ download = NoDownload
    /\ user_input = <<>>
    /\ aaxc_file = NoPath
    /\ credentials = NoCredentials
    /\ output_file = NoPath
    /\ dec = NoDecrypt
    /\ verified = "none"
    /\ cleanup = NoCleanup
    /\ unlinked = {}
    /\ warnings = 0
    /\ library_data = <<>>
    /\ page_size = 0
    /\ page_num = 0
    /\ shown = <<>>
    /\ orch_calls = 0
    /\ sorting = NoSort
    /\ arg = NoValue
    /\ ret = NoValue

\* Mutant: the error is printed and sys.exit(1) is forgotten, so the run goes
\* on with the next stage
Fail_no_exit(kind) ==
    /\ error' = kind
    /\ exit_code' = exit_code
    /\ pc' = CASE pc = "Validating" -> "Downloading"
              [] pc = "Downloading" -> "Locating"
              [] pc = "Locating" -> "ExtractingCredentials"
              [] pc = "ExtractingCredentials" -> "Decrypting"
              [] pc = "Decrypting" -> "Verifying"
              [] pc = "Verifying" -> "CleaningUp"
              [] OTHER -> "Failed"

\* Mutant: the browser reports a failed or empty listing and goes on
Fail_listing_ignored(kind) ==
    /\ error' = kind
    /\ IF pc = "fetch_library"
       THEN pc' = "confirm_sort" /\ exit_code' = exit_code
       ELSE pc' = "Failed" /\ exit_code' = 1

\* Mutant: sys.exit() without a status
Fail_exit_zero(kind) ==
    /\ pc' = "Failed"
    /\ exit_code' = 0
    /\ error' = kind

\* sys.exit(1) after a red error message
Fail(kind) ==
    /\ pc' = "Failed"
    /\ exit_code' = 1
    /\ error' = kind

\* An exception nothing catches: traceback, exit status 1
Crash(exc) == Fail(exc)

-----------------------------------------------------------------------------
(* main (lines 280-303) *)

\* The command line.  --asin absent (None) and --asin "" are both falsy at
\* line 294 and are both the empty sequence here.
Main ==
    /\ pc = "main"
    /\ \E a \in AsinInputs \cup {<<>>}, k \in BOOLEAN :
        /\ keep_files' = k
        /\ IF a # <<>>
           THEN /\ asin' = a
                /\ entry' = "direct"
                /\ pc' = "Validating"
           ELSE /\ pc' = "menu"
                /\ UNCHANGED <<asin, entry>>
    /\ UNCHANGED fn_vars
    /\ UNCHANGED <<exit_code, error, fs_vars, cmds, download, aaxc_file, credentials,
                   output_file, dec, verified, cleanup, unlinked, warnings, browser_vars>>

\* "Choose an option": click.Choice accepts only 1 or 2; 2 prompts for an ASIN
\* (click.prompt accepts no empty answer)
Menu ==
    /\ pc = "menu"
    /\ \E choice \in {"1", "2"}, a \in AsinInputs :
        IF choice = "1"
        THEN /\ pc' = "fetch_library"
             /\ UNCHANGED <<asin, entry>>
        ELSE /\ asin' = a
             /\ entry' = "menu"
             /\ pc' = "Validating"
    /\ UNCHANGED fn_vars
    /\ UNCHANGED <<exit_code, error, keep_files, fs_vars, cmds, download, aaxc_file,
                   credentials, output_file, dec, verified, cleanup, unlinked, warnings,
                   browser_vars>>

-----------------------------------------------------------------------------
(* process_book (lines 156-199), one action per stage *)

\* lines 158-159
Validating ==
    /\ pc = "Validating"
    /\ IF ~validate_asin(asin)
       THEN Fail("InvalidIdentifier")
       ELSE pc' = "Downloading" /\ UNCHANGED <<exit_code, error>>
    /\ UNCHANGED fn_vars
    /\ UNCHANGED <<entry, pipeline_vars, fs_vars, cmds, browser_vars>>

\* lines 161-166: mkdir, then download_audiobook (lines 49-63).  outcome is
\* "mkdir_error" (mkdir raises), "not_found" (the audible program cannot be
\* started: FileNotFoundError is not a CalledProcessError and is not caught),
\* "nonzero" (CalledProcessError) or "zero".  A client that ran may have
\* written any of the book's files, whatever its exit status.  What it wrote
\* into the voucher shows when the voucher is read (Unread until then).
Downloading ==
    /\ pc = "Downloading"
    /\ \E outcome \in {"mkdir_error", "not_found", "nonzero", "zero"} :
        \E written \in (IF outcome \in {"nonzero", "zero"} THEN SUBSET FilesOf(asin)
                        ELSE {{}}) :
            /\ cmds' = IF outcome = "mkdir_error" THEN cmds
                       ELSE Append(cmds, "audible download")
            /\ dir' = dir \cup written
            /\ empty' = empty \ written
            /\ vdata' = [f \in VoucherFiles |-> IF f \in written THEN Unread ELSE vdata[f]]
            /\ download' = [outcome |-> outcome, written |-> written]
            /\ CASE outcome = "mkdir_error" -> Crash("Uncaught OSError (mkdir)")
                 [] outcome = "not_found" -> Crash("Uncaught FileNotFoundError")
                 [] outcome = "nonzero" -> Fail("DownloadFailed")
                 [] OTHER -> pc' = "Locating" /\ UNCHANGED <<exit_code, error>>
    /\ UNCHANGED fn_vars
    /\ UNCHANGED <<entry, asin, keep_files, aaxc_file, credentials, output_file, dec,
                   verified, cleanup, unlinked, warnings, browser_vars>>

\* lines 169-172
Locating ==
    /\ pc = "Locating"
    /\ IF glob_aaxc(dir) = {}
       THEN Fail("ArtifactNotFound") /\ UNCHANGED aaxc_file
       ELSE /\ \E f \in glob_aaxc(dir) : aaxc_file' = f
            /\ pc' = "ExtractingCredentials"
            /\ UNCHANGED <<exit_code, error>>
    /\ UNCHANGED fn_vars
    /\ UNCHANGED <<entry, asin, keep_files, download, credentials, output_file, dec,
                   verified, cleanup, unlinked, warnings, fs_vars, cmds, browser_vars>>

\* lines 174-178.  A voucher the download client has just written is read
\* here for the first time: its content is any of VoucherShapes.
ExtractingCredentials ==
    /\ pc = "ExtractingCredentials"
    /\ LET voucher_file == with_suffix(aaxc_file, EXT_VOUCHER) IN
       \E content \in (IF voucher_file \in dir /\ vdata[voucher_file] = Unread
                       THEN VoucherShapes ELSE {NoData}) :
        LET read == IF voucher_file \in dir /\ vdata[voucher_file] = Unread
                    THEN [vdata EXCEPT ![voucher_file] = content] ELSE vdata
            r == get_aaxc_credentials(dir, read, voucher_file)
        IN /\ vdata' = read
           /\ credentials' = r
           /\ IF r.ok
              THEN pc' = "Decrypting" /\ UNCHANGED <<exit_code, error>>
              ELSE Fail("CredentialsFailed")
    /\ UNCHANGED fn_vars
    /\ UNCHANGED <<entry, asin, keep_files, download, aaxc_file, output_file, dec,
                   verified, cleanup, unlinked, warnings, dir, empty, cmds, browser_vars>>

\* lines 180-183 with decrypt_audiobook (lines 77-96).  ffmpeg cannot be
\* started ("raise"), or runs and exits zero or non-zero; when it ran, the
\* target file is afterwards absent, empty or non-empty.
Decrypting ==
    /\ pc = "Decrypting"
    /\ LET target == with_suffix(aaxc_file, EXT_M4B) IN
       \E outcome \in {"raise", "nonzero", "zero"}, left \in {"absent", "empty", "data"} :
        /\ (outcome = "raise") =>
                left = (IF target \notin dir THEN "absent"
                        ELSE IF target \in empty THEN "empty" ELSE "data")
        /\ cmds' = Append(cmds, "ffmpeg decrypt")
        /\ dir' = IF left = "absent" THEN dir \ {target} ELSE dir \cup {target}
        /\ empty' = IF left = "empty" THEN empty \cup {target} ELSE empty \ {target}
        /\ LET r == decrypt_result(outcome = "raise",
                                   IF outcome = "zero" THEN 0 ELSE 1,
                                   left # "absent",
                                   IF left = "data" THEN 1 ELSE 0,
                                   target)
           IN /\ dec' = [ran |-> TRUE, raised |-> outcome = "raise",
                         returncode |-> IF outcome = "zero" THEN 0 ELSE 1,
                         before |-> target \in dir,
                         exists |-> left # "absent",
                         size |-> IF left = "data" THEN 1 ELSE 0,
                         success |-> r.success, path |-> r.path]
              /\ output_file' = r.path
              /\ IF ~r.success \/ r.path = NoPath
                 THEN Fail("DecryptionFailed")
                 ELSE pc' = "Verifying" /\ UNCHANGED <<exit_code, error>>
    /\ UNCHANGED fn_vars
    /\ UNCHANGED <<entry, asin, keep_files, download, aaxc_file, credentials, verified,
                   cleanup, unlinked, warnings, vdata, browser_vars>>

\* verify_decrypted_file (lines 136-142)
verify_decrypted_file(outcome) == outcome = "zero"

\* Mutant: the unverified output is left where it is
unlink_output_skipped(d, file, refused) == d

\* line 188: the unverified output is unlinked if it exists; the unlink
\* raises when the file system refuses
unlink_output(d, file, refused) == IF file \in d /\ ~refused THEN d \ {file} ELSE d

\* lines 185-189.  The unlink of line 188 is not inside a try, so a refusal
\* ends the run by traceback before sys.exit(1) is reached.
Verifying ==
    /\ pc = "Verifying"
    /\ \E outcome \in {"raise", "nonzero", "zero"}, refused \in BOOLEAN :
        /\ (outcome = "zero" \/ output_file \notin dir) => ~refused
        /\ cmds' = Append(cmds, "ffmpeg validate")
        /\ IF verify_decrypted_file(outcome)
           THEN /\ verified' = "true"
                /\ pc' = "CleaningUp"
                /\ UNCHANGED <<exit_code, error, dir, empty, unlinked>>
           ELSE /\ verified' = "false"
                /\ dir' = unlink_output(dir, output_file, refused)
                /\ empty' = empty \cap dir'
                /\ unlinked' = unlinked \cup (dir \ dir')
                /\ IF refused THEN Crash("Uncaught OSError (unlink)")
                   ELSE Fail("VerificationFailed")
    /\ UNCHANGED fn_vars
    /\ UNCHANGED <<entry, asin, keep_files, download, aaxc_file, credentials, output_file,
                   dec, cleanup, warnings, vdata, browser_vars>>

\* Mutant: the --keep-files flag is ignored
should_cleanup_always(keep) == TRUE

\* line 191
should_cleanup(keep) == ~keep

\* lines 191-199, then the return to the caller and exit status 0.
\* failing is the set of listed files the file system refuses to delete.
CleaningUp ==
    /\ pc = "CleaningUp"
    /\ IF should_cleanup(keep_files)
       THEN LET related == get_related_files(dir, aaxc_file) IN
            \E failing \in SUBSET Range(related.files) :
                LET r == cleanup_files(related.files, failing, dir) IN
                /\ dir' = r.dir
                /\ empty' = empty \ r.removed
                /\ cleanup' = [ran |-> TRUE, files |-> related.files,
                               failing |-> failing, attempted |-> r.attempted,
                               removed |-> r.removed, warned |-> r.warned]
                /\ unlinked' = unlinked \cup r.removed
                /\ warnings' = warnings + related.warned
       ELSE UNCHANGED <<dir, empty, cleanup, unlinked, warnings>>
    /\ pc' = "Done"
    /\ exit_code' = 0
    /\ UNCHANGED fn_vars
    /\ UNCHANGED <<error, entry, asin, keep_files, download, aaxc_file, credentials,
                   output_file, dec, verified, vdata, cmds, browser_vars>>

-----------------------------------------------------------------------------
(* str methods used by the browser *)

Whitespace == {" ", "\n", "\t"}

\* str.strip()
strip(s) ==
    LET keep == {i \in 1..Len(s) : s[i] \notin Whitespace}
    IN IF keep = {} THEN <<>>
       ELSE SubSeq(s, CHOOSE i \in keep : \A j \in keep : i <= j,
                      CHOOSE i \in keep : \A j \in keep : j <= i)

\* str.split(sep, maxsplit) for a one-character sep; maxsplit -1 is unlimited
RECURSIVE split(_, _, _)
split(s, sep, maxsplit) ==
    LET i == Find(s, sep)
    IN IF i = 0 \/ maxsplit = 0 THEN <<s>>
       ELSE <<SubSeq(s, 1, i - 1)>> \o split(SubSeq(s, i + 1, Len(s)), sep, maxsplit - 1)

DigitValue == [c \in {"0", "1", "2", "3", "4", "5", "6", "7", "8", "9"} |->
                  CASE c = "0" -> 0 [] c = "1" -> 1 [] c = "2" -> 2 [] c = "3" -> 3
                    [] c = "4" -> 4 [] c = "5" -> 5 [] c = "6" -> 6 [] c = "7" -> 7
                    [] c = "8" -> 8 [] OTHER -> 9]
\* A character str.isdigit() accepts and int() does not (superscript two)
SUPERSCRIPT_TWO == "<superscript 2>"

\* str.isdigit()
isdigit(s) == s # <<>> /\ \A i \in 1..Len(s) : s[i] \in DOMAIN DigitValue \cup {SUPERSCRIPT_TWO}

\* int(s) for a string of ASCII digits
RECURSIVE int(_)
int(s) == IF s = <<>> THEN 0 ELSE 10 * int(SubSeq(s, 1, Len(s) - 1)) + DigitValue[s[Len(s)]]

\* str.lower() on the characters an operator types here
lower(s) == [i \in 1..Len(s) |->
                CASE s[i] = "N" -> "n" [] s[i] = "P" -> "p" [] s[i] = "Q" -> "q"
                  [] s[i] = "X" -> "x" [] OTHER -> s[i]]

Reverse(s) == [i \in 1..Len(s) |-> s[Len(s) + 1 - i]]

\* Mutant: the slice takes one entry more
Slice_one_more(s, a, b) ==
    IF a >= Len(s) THEN <<>> ELSE SubSeq(s, a + 1, IF b + 1 < Len(s) THEN b + 1 ELSE Len(s))

\* list[a:b] for 0 <= a <= b
Slice(s, a, b) ==
    IF a >= Len(s) THEN <<>> ELSE SubSeq(s, a + 1, IF b < Len(s) THEN b ELSE Len(s))

-----------------------------------------------------------------------------
(* parse_library_list_output (lines 144-154) *)

\* Mutant: line.split(':') without the limit of two splits
RECURSIVE parse_lines_unlimited(_, _)
parse_lines_unlimited(lines, acc) ==
    IF lines = <<>> THEN acc
    ELSE LET line == Head(lines)
             parts == split(line, ":", -1)
         IN IF line = <<>> THEN parse_lines_unlimited(Tail(lines), acc)
            ELSE IF Len(parts) # 3
            THEN parse_lines_unlimited(Tail(lines), [acc EXCEPT !.warned = @ + 1])
            ELSE parse_lines_unlimited(Tail(lines),
                    [acc EXCEPT !.data = Append(@,
                        [asin |-> strip(parts[1]),
                         title |-> strip(parts[3]),
                         authors |-> <<[name |-> strip(parts[2])]>>])])

RECURSIVE parse_lines(_, _)
parse_lines(lines, acc) ==
    IF lines = <<>> THEN acc
    ELSE LET line == Head(lines)
             parts == split(line, ":", 2)
         IN IF line = <<>> THEN parse_lines(Tail(lines), acc)
            ELSE IF Len(parts) # 3
            THEN parse_lines(Tail(lines), [acc EXCEPT !.warned = @ + 1])
            ELSE parse_lines(Tail(lines),
                    [acc EXCEPT !.data = Append(@,
                        [asin |-> strip(parts[1]),
                         title |-> strip(parts[3]),
                         authors |-> <<[name |-> strip(parts[2])]>>])])

parse_library_list_output(text_output) ==
    parse_lines(split(strip(text_output), "\n", -1), [data |-> <<>>, warned |-> 0])

-----------------------------------------------------------------------------
(* What `audible library list` may print: the first k lines of a catalog,  *)
(* one "ASIN: Author: Title" line per entry (every second title holds a    *)
(* colon of its own), or a line that is no entry at all.                   *)

MaxBooks == 3
MaxPageSize == 2

CatalogAsins == <<B1, B2, ASIN_DIGITS>>

CatalogLine(i) ==
    CatalogAsins[((i - 1) % 3) + 1] \o <<":", " ", "a", ":", " ", "t">>
        \o (IF i % 2 = 0 THEN <<":", " ", "u">> ELSE <<>>) \o <<"\n">>

RECURSIVE Listing(_)
Listing(k) == IF k = 0 THEN <<>> ELSE Listing(k - 1) \o CatalogLine(k)

Listings == {Listing(k) : k \in 0..MaxBooks} \cup {<<"n", "o", "n", "e", "\n">>}

\* What the operator may type at the prompt
Inputs ==
    {<<c>> : c \in {d \in DOMAIN DigitValue : DigitValue[d] <= MaxBooks + 1}}
    \cup {<<"-", "1">>, <<SUPERSCRIPT_TWO>>, <<>>,
          <<"n">>, <<"N">>, <<"p">>, <<"P">>, <<"q">>, <<"Q">>, <<"x">>}

-----------------------------------------------------------------------------
(* browse_and_download_mode (lines 201-273) *)

\* lines 203-223: import rich, run `audible library list`, parse its output
FetchLibrary ==
    /\ pc = "fetch_library"
    /\ \E outcome \in {"import_error", "not_found", "nonzero", "zero"}, stdout \in Listings :
        /\ (outcome # "zero") => stdout = <<>>
        /\ cmds' = IF outcome = "import_error" THEN cmds
                   ELSE Append(cmds, "audible library list")
        /\ CASE outcome = "import_error" ->
                    Fail("RichMissing") /\ UNCHANGED library_data
             [] outcome = "not_found" ->
                    Crash("Uncaught FileNotFoundError") /\ UNCHANGED library_data
             [] outcome = "nonzero" ->
                    Fail("ListingFailed") /\ UNCHANGED library_data
             [] OTHER ->
                    LET parsed == parse_library_list_output(stdout).data IN
                    /\ library_data' = parsed
                    /\ IF parsed = <<>>
                       THEN Fail("NoBooks")
                       ELSE pc' = "confirm_sort" /\ UNCHANGED <<exit_code, error>>
    /\ UNCHANGED <<fn_vars, sorting>>
    /\ UNCHANGED <<entry, pipeline_vars, fs_vars, page_size, page_num, shown, user_input,
                   orch_calls>>

\* Mutant: the operator's answer is ignored
apply_sort_answer_ignored(data, sort_order, confirm) ==
    IF sort_order = "newest_first" THEN Reverse(data) ELSE data

\* lines 226-233: the list after the operator confirmed or declined the
\* configured sort order
apply_sort(data, sort_order, confirm) ==
    IF confirm
    THEN (IF sort_order = "newest_first" THEN Reverse(data) ELSE data)
    ELSE LET current_sort == IF sort_order = "newest_first" THEN "oldest_first"
                             ELSE "newest_first"
         IN IF current_sort = "newest_first" THEN Reverse(data) ELSE data

\* lines 225-236: the configured default_sort, the operator's answer to
\* "Sort by ...?", the configured page_size
ConfirmSort ==
    /\ pc = "confirm_sort"
    /\ \E sort_order \in {"newest_first", "oldest_first"}, confirm \in BOOLEAN,
          size \in 1..MaxPageSize :
        /\ library_data' = apply_sort(library_data, sort_order, confirm)
        /\ sorting' = [listed |-> library_data, sort_order |-> sort_order,
                       confirm |-> confirm]
        /\ page_size' = size
        /\ page_num' = 0
    /\ pc' = "display"
    /\ UNCHANGED fn_vars
    /\ UNCHANGED <<exit_code, error, entry, pipeline_vars, fs_vars, cmds, shown, user_input,
                   orch_calls>>

start_index == page_num * page_size
end_index == start_index + page_size
page_data == Slice(library_data, start_index, end_index)

\* lines 238-251: slice the page; an empty page steps the index back,
\* otherwise the rows are rendered with their 1-based numbers
DisplayPage ==
    /\ pc = "display"
    /\ IF page_data = <<>>
       THEN /\ page_num' = page_num - 1
            /\ UNCHANGED <<pc, shown>>
       ELSE /\ shown' = [i \in 1..Len(page_data) |->
                            [row |-> start_index + i, item |-> page_data[i]]]
            /\ pc' = "prompt"
            /\ UNCHANGED page_num
    /\ UNCHANGED <<fn_vars, sorting>>
    /\ UNCHANGED <<exit_code, error, entry, pipeline_vars, fs_vars, cmds, library_data,
                   page_size, user_input, orch_calls>>

\* Mutant: "end_index <= len(library_data)"
next_page_off_by_one(page, end, total) == IF end <= total THEN page + 1 ELSE page

\* line 265 and line 268
next_page(page, end, total) == IF end < total THEN page + 1 ELSE page
previous_page(page) == IF page > 0 THEN page - 1 ELSE page

\* lines 253-273: one answer to "Enter book # to download, (n)ext, ..."
Prompt ==
    /\ pc = "prompt"
    /\ \E typed \in Inputs :
        /\ user_input' = lower(typed)
        /\ IF isdigit(user_input')
           THEN IF SUPERSCRIPT_TWO \in Range(user_input')
                THEN /\ Crash("Uncaught ValueError")
                     /\ UNCHANGED <<asin, entry, page_num, orch_calls>>
                ELSE LET choice == int(user_input') IN
                     IF 1 <= choice /\ choice <= Len(library_data)
                     THEN /\ asin' = library_data[choice].asin
                          /\ entry' = "browse"
                          /\ orch_calls' = orch_calls + 1
                          /\ pc' = "Validating"
                          /\ UNCHANGED <<exit_code, error, page_num>>
                     ELSE /\ pc' = "display"
                          /\ UNCHANGED <<exit_code, error, asin, entry, page_num, orch_calls>>
           ELSE IF user_input' = <<"n">>
           THEN /\ page_num' = next_page(page_num, end_index, Len(library_data))
                /\ pc' = "display"
                /\ UNCHANGED <<exit_code, error, asin, entry, orch_calls>>
           ELSE IF user_input' = <<"p">>
           THEN /\ page_num' = previous_page(page_num)
                /\ pc' = "display"
                /\ UNCHANGED <<exit_code, error, asin, entry, orch_calls>>
           ELSE IF user_input' = <<"q">>
           THEN /\ pc' = "Quit"
                /\ exit_code' = 0
                /\ UNCHANGED <<error, asin, entry, page_num, orch_calls>>
           ELSE /\ pc' = "display"
                /\ UNCHANGED <<exit_code, error, asin, entry, page_num, orch_calls>>
    /\ UNCHANGED <<fn_vars, sorting>>
    /\ UNCHANGED <<keep_files, download, aaxc_file, credentials, output_file, dec, verified,
                   cleanup, unlinked, warnings, fs_vars, cmds, library_data, page_size,
                   shown>>

-----------------------------------------------------------------------------

Next ==
    \/ Main
    \/ Menu
    \/ Validating
    \/ Downloading
    \/ Locating
    \/ ExtractingCredentials
    \/ Decrypting
    \/ Verifying
    \/ CleaningUp
    \/ FetchLibrary
    \/ ConfirmSort
    \/ DisplayPage
    \/ Prompt

Spec == Init /\ [][Next]_vars

-----------------------------------------------------------------------------
(* parse_library_list_output exercised on its own: the text is any sequence *)
(* of up to MaxLines lines, joined by newlines, with or without a final one *)

MaxLines == 3

ParseLines ==
    { <<"B", ":", " ", "a", ":", " ", "t">>,
      <<"C", ":", "a", ":", "t", ":", " ", "u">>,
      <<"D", ":", "a">>,
      <<"x">>,
      <<>>,
      <<" ", "E", " ", ":", ":", "t", " ">>,
      <<" ">> }

RECURSIVE Join(_)
Join(lines) ==
    IF lines = <<>> THEN <<>>
    ELSE IF Len(lines) = 1 THEN lines[1]
    ELSE lines[1] \o <<"\n">> \o Join(Tail(lines))

ParseInputs ==
    { [lines |-> ls, text |-> Join(ls) \o tail] :
        ls \in UNION {[1..n -> ParseLines] : n \in 0..MaxLines},
        tail \in {<<>>, <<"\n">>} }

\* What the variables of the program hold while one function is exercised
Unused ==
    /\ exit_code = NotExited
    /\ error = ""
    /\ entry = ""
    /\ asin = <<>>
    /\ keep_files = FALSE
    /\ empty = {}
    /\ vdata = NoVouchers
    /\ cmds = <<>>
    /\ download = NoDownload
    /\ user_input = <<>>
    /\ credentials = NoCredentials
    /\ output_file = NoPath
    /\ dec = NoDecrypt
    /\ verified = "none"
    /\ cleanup = NoCleanup
    /\ unlinked = {}
    /\ warnings = 0
    /\ library_data = <<>>
    /\ page_size = 0
    /\ page_num = 0
    /\ shown = <<>>
    /\ orch_calls = 0
    /\ sorting = NoSort
    /\ ret = NoValue

InitParse ==
    /\ pc = "parse"
    /\ arg \in ParseInputs
    /\ dir = {}
    /\ aaxc_file = NoPath
    /\ Unused

\* library_data = parse_library_list_output(result.stdout)  (line 218)
ParseListing ==
    /\ pc = "parse"
    /\ ret' = parse_library_list_output(arg.text)
    /\ pc' = "parsed"
    /\ UNCHANGED <<exit_code, error, entry, pipeline_vars, fs_vars, cmds, browser_vars, arg>>

NextParse == ParseListing

ParseSpec == InitParse /\ [][NextParse]_vars

-----------------------------------------------------------------------------
(* get_related_files exercised on its own, twice in a row: the artifact is  *)
(* one of six names (either marker, a tail after the marker, both markers,  *)
(* no marker, a marker in lower case) and the directory holds any subset of *)
(* the files around it.                                                     *)

Artifacts ==
    { [name |-> <<"b", "-", "A", "A", "X">> \o EXT_AAXC, base |-> <<"b">>],
      [name |-> <<"b", "c", "-", "L", "C">> \o EXT_AAXC, base |-> <<"b", "c">>],
      [name |-> <<"g", "-", "A", "A", "X", "_", "2">> \o EXT_AAXC, base |-> <<"g">>],
      [name |-> <<"e", "-", "L", "C", "-", "A", "A", "X">> \o EXT_AAXC, base |-> <<"e">>],
      [name |-> <<"d">> \o EXT_AAXC, base |-> <<"d">>],
      [name |-> <<"f", "-", "a", "a", "x">> \o EXT_AAXC,
       base |-> <<"f", "-", "a", "a", "x">>] }

FilesAround(a) ==
    { a.name,
      SubSeq(a.name, 1, Len(a.name) - Len(EXT_AAXC)) \o EXT_VOUCHER,
      a.base \o CHAPTERS_JSON,
      a.base \o <<".", "j", "p", "g">>,
      a.base \o <<"_", "1", ".", "J", "P", "E", "G">>,
      <<"z", ".", "j", "p", "g">>,
      a.base \o <<".", "p", "n", "g">> }

InitCompanions ==
    /\ pc = "derive"
    /\ \E a \in Artifacts :
        /\ aaxc_file = a.name
        /\ dir \in SUBSET FilesAround(a)
        /\ arg = [dir |-> dir, base |-> a.base]
    /\ Unused

\* One call of get_related_files(aaxc_file); it reads the directory (glob,
\* exists) and writes nothing
DeriveCompanions ==
    /\ pc \in {"derive", "derived"}
    /\ LET related == get_related_files(dir, aaxc_file) IN
        /\ ret' = Append(ret, [files |-> related.files, warned |-> related.warned,
                               base_name |-> base_name_of(stem(aaxc_file))])
        /\ warnings' = warnings + related.warned
    /\ pc' = IF pc = "derive" THEN "derived" ELSE "derived_again"
    /\ UNCHANGED <<exit_code, error, entry, asin, keep_files, download, aaxc_file,
                   credentials, output_file, dec, verified, cleanup, unlinked, fs_vars,
                   cmds, browser_vars, arg>>

NextCompanions == DeriveCompanions

CompanionsSpec == InitCompanions /\ [][NextCompanions]_vars

-----------------------------------------------------------------------------
(* Properties *)

\* The external commands process_book launched (the browser's listing
\* command comes before the run)
PipelineCmds == SelectSeq(cmds, LAMBDA c : c # "audible library list")
CommandOrder == <<"audible download", "ffmpeg decrypt", "ffmpeg validate">>
WellFormedAsin(a) == Len(a) = 10 /\ a[1] = "B"
InRun == entry # ""
PastValidation == InRun /\ pc # "Validating"

\* C1: in every run the external commands are launched in the order
\* download, decrypt, validate, each at most once; a stage is entered only
\* when every earlier stage succeeded; a run that failed at a stage launched
\* the commands up to that stage and nothing of a later stage has happened.
C1_SequentialNoRetry ==
    /\ \E k \in 0..3 : PipelineCmds = SubSeq(CommandOrder, 1, k)
    /\ pc = "Validating" => PipelineCmds = <<>>
    /\ pc = "Downloading" => WellFormedAsin(asin) /\ PipelineCmds = <<>>
    /\ pc = "Locating" => download.outcome = "zero" /\ Len(PipelineCmds) = 1
    /\ pc = "ExtractingCredentials" => aaxc_file \in dir /\ Len(PipelineCmds) = 1
    /\ pc = "Decrypting" => credentials.ok /\ Len(PipelineCmds) = 1
    /\ pc = "Verifying" => dec.success /\ output_file \in dir /\ Len(PipelineCmds) = 2
    /\ pc \in {"CleaningUp", "Done"} => verified = "true" /\ Len(PipelineCmds) = 3
    /\ (InRun /\ pc = "Failed") =>
        /\ error = "InvalidIdentifier" => PipelineCmds = <<>> /\ download.outcome = "none"
        /\ error = "Uncaught OSError (mkdir)" => PipelineCmds = <<>>
        /\ error \in {"Uncaught FileNotFoundError", "DownloadFailed", "ArtifactNotFound"} =>
                Len(PipelineCmds) = 1 /\ credentials = NoCredentials
        /\ error = "CredentialsFailed" => Len(PipelineCmds) = 1 /\ ~dec.ran
        /\ error = "DecryptionFailed" => Len(PipelineCmds) = 2 /\ verified = "none"
        /\ error \in {"VerificationFailed", "Uncaught OSError (unlink)"} =>
                Len(PipelineCmds) = 3 /\ ~cleanup.ran
        /\ error # ""

\* A run that failed in the decryption stage: two commands launched, no third
C1_Witness ==
    /\ pc = "Failed"
    /\ error = "DecryptionFailed"
    /\ PipelineCmds = <<"audible download", "ffmpeg decrypt">>

\* C2: an identifier that is not 10 characters long or does not start with
\* 'B' is rejected and its run fails with no external command launched; an
\* identifier of length 10 starting with 'B' is accepted and its run goes on
\* to the download stage.
C2_ValidatorGate ==
    /\ PastValidation =>
        IF WellFormedAsin(asin)
        THEN error # "InvalidIdentifier"
             /\ (pc = "Failed" => download.outcome # "none")
        ELSE pc = "Failed" /\ error = "InvalidIdentifier" /\ exit_code = 1
             /\ PipelineCmds = <<>>
    /\ pc = "Downloading" => WellFormedAsin(asin)

\* A ten-character identifier that does not start with 'B' was rejected
C2_Witness ==
    /\ pc = "Failed"
    /\ error = "InvalidIdentifier"
    /\ Len(asin) = 10
    /\ PipelineCmds = <<>>

\* The stages of a run that have failed, read from what each stage recorded
FailedValidation == PastValidation /\ ~WellFormedAsin(asin)
FailedDownload == download.outcome \in {"mkdir_error", "not_found", "nonzero"}
FailedLocate == download.outcome = "zero" /\ pc # "Locating" /\ aaxc_file = NoPath
FailedCredentials == credentials.exc # ""
FailedDecrypt ==
    dec.ran /\ ~(~dec.raised /\ dec.returncode = 0 /\ dec.exists /\ dec.size > 0)
FailedVerify == verified = "false"
StageFailed ==
    \/ FailedValidation
    \/ FailedDownload
    \/ FailedLocate
    \/ FailedCredentials
    \/ FailedDecrypt
    \/ FailedVerify

\* C3: the outcome of a run, started directly or from the browser, is
\* non-zero exactly when some stage failed and zero exactly when the run
\* reached Done; no run with a failed stage reaches Done.
C3_ExitCode ==
    InRun =>
        /\ exit_code \in {NotExited, 0, 1}
        /\ (exit_code = 1) <=> StageFailed
        /\ (exit_code = 0) <=> (pc = "Done")
        /\ StageFailed => pc = "Failed"

\* A run started from the browser failed verification and ended non-zero
C3_Witness ==
    /\ entry = "browse"
    /\ FailedVerify
    /\ exit_code = 1

\* C4: the decryption stage reports success with the output path exactly
\* when ffmpeg ran, exited zero, and the target file exists with a size
\* above zero; otherwise it reports failure and no path.
C4_DecryptThreeWay ==
    dec.ran =>
        /\ dec.success <=>
            (~dec.raised /\ dec.returncode = 0 /\ dec.exists /\ dec.size > 0)
        /\ dec.success => dec.path = with_suffix(aaxc_file, EXT_M4B)
        /\ ~dec.success => dec.path = NoPath /\ output_file = NoPath
        /\ (dec.success /\ pc = "Verifying") =>
                output_file \in dir /\ output_file \notin empty

\* ffmpeg exited zero and left an empty target file: reported as failure
C4_Witness ==
    /\ dec.ran
    /\ dec.returncode = 0
    /\ ~dec.raised
    /\ dec.exists
    /\ dec.size = 0
    /\ ~dec.success

\* C5 as stated: whenever verification fails the run ends Failed with a
\* non-zero outcome, the unverified output no longer exists at the target
\* path, and no cleanup is performed.
C5_Original ==
    FailedVerify =>
        /\ pc = "Failed"
        /\ exit_code = 1
        /\ output_file \notin dir
        /\ ~cleanup.ran
        /\ unlinked \subseteq {output_file}

\* C5 amended: whenever verification fails the run ends Failed with a
\* non-zero outcome and no cleanup is performed; the unverified output no
\* longer exists at the target path unless the file system refused its
\* deletion, in which case the run ended by that uncaught exception.
C5_UnverifiedOutputRemoved ==
    FailedVerify =>
        /\ pc = "Failed"
        /\ exit_code = 1
        /\ ~cleanup.ran
        /\ unlinked \subseteq {output_file}
        /\ aaxc_file \in dir
        /\ error \in {"VerificationFailed", "Uncaught OSError (unlink)"}
        /\ error = "VerificationFailed" => output_file \notin dir /\ output_file \in unlinked
        /\ error = "Uncaught OSError (unlink)" => output_file \in dir /\ unlinked = {}

\* Verification failed and the output was deleted
C5_Witness ==
    /\ FailedVerify
    /\ output_file \in unlinked
    /\ output_file \notin dir

\* C6 as stated: the artifact and its companions are deleted only after
\* verification succeeded and only without keep_files; a failed run deletes
\* none of them; a run with keep_files deletes no file at all.
C6_Original ==
    /\ (unlinked \ {output_file}) # {} => verified = "true" /\ ~keep_files
    /\ pc = "Failed" => (unlinked \ {output_file}) = {}
    /\ keep_files => unlinked = {}

\* C6 amended: as stated, except that a run with keep_files deletes no file
\* other than the unverified output it removes when verification fails.
C6_DeleteOnlyAfterVerify ==
    /\ (unlinked \ {output_file}) # {} => verified = "true" /\ ~keep_files
    /\ pc = "Failed" => (unlinked \ {output_file}) = {}
    /\ keep_files => /\ unlinked \subseteq {output_file}
                     /\ unlinked # {} => verified = "false"
    /\ (keep_files /\ pc = "Done") => unlinked = {} /\ aaxc_file \in dir

\* A verified run without keep_files deleted the artifact
C6_Witness ==
    /\ pc = "Done"
    /\ ~keep_files
    /\ verified = "true"
    /\ aaxc_file \in unlinked

\* C7: cleanup tries every listed file whatever deletions fail, removes
\* every file whose deletion does not fail, and the run ends Done with
\* outcome zero.
C7_CleanupBestEffort ==
    cleanup.ran =>
        /\ cleanup.attempted = cleanup.files
        /\ \A f \in Range(cleanup.files) :
            IF f \in cleanup.failing
            THEN f \in dir /\ f \in cleanup.warned
            ELSE f \notin dir /\ f \in cleanup.removed
        /\ pc = "Done"
        /\ exit_code = 0
        /\ error = ""

\* A deletion failed and a file listed after it was still removed
C7_Witness ==
    /\ cleanup.ran
    /\ \E i, j \in 1..Len(cleanup.files) :
        /\ i < j
        /\ cleanup.files[i] \in cleanup.failing
        /\ cleanup.files[j] \in cleanup.removed

\* BaseName as the glossary defines it: the stem up to the leftmost license
\* marker, the whole stem when it holds none
MarkerAt(s, i) ==
    \/ i + 3 <= Len(s) /\ SubSeq(s, i, i + 3) = <<"-", "A", "A", "X">>
    \/ i + 2 <= Len(s) /\ SubSeq(s, i, i + 2) = <<"-", "L", "C">>
BaseName(s) ==
    IF \E i \in 1..Len(s) : MarkerAt(s, i)
    THEN SubSeq(s, 1, (CHOOSE i \in 1..Len(s) :
                          MarkerAt(s, i) /\ \A j \in 1..(i - 1) : ~MarkerAt(s, j)) - 1)
    ELSE s
ImageExtensions ==
    {<<".", j, p, g>> : j \in {"j", "J"}, p \in {"p", "P"}, g \in {"g", "G"}}
    \cup {<<".", j, p, e, g>> : j \in {"j", "J"}, p \in {"p", "P"}, e \in {"e", "E"},
                                g \in {"g", "G"}}
IsCover(f, base) == StartsWith(f, base) /\ \E x \in ImageExtensions : EndsWith(f, x)

\* C8: after a run that succeeds with keep_files false and no failing
\* deletion, the artifact, its voucher, the BaseName chapters file and every
\* BaseName-prefixed cover image are gone, the decrypted output exists and
\* the run reports success.
C8_SuccessfulCleanup ==
    (pc = "Done" /\ ~keep_files /\ cleanup.failing = {}) =>
        LET base == BaseName(stem(aaxc_file)) IN
        /\ aaxc_file \notin dir
        /\ with_suffix(aaxc_file, EXT_VOUCHER) \notin dir
        /\ (base \o CHAPTERS_JSON) \notin dir
        /\ \A f \in dir : ~IsCover(f, base)
        /\ output_file \in dir
        /\ output_file \notin empty
        /\ exit_code = 0
        /\ error = ""

\* Such a run removed a chapters file and a cover image
C8_Witness ==
    /\ pc = "Done"
    /\ ~keep_files
    /\ cleanup.failing = {}
    /\ (BaseName(stem(aaxc_file)) \o CHAPTERS_JSON) \in cleanup.removed
    /\ \E f \in cleanup.removed : IsCover(f, BaseName(stem(aaxc_file)))
    /\ output_file \in dir

\* What the claim asks of a voucher's content
HasKeyAndIv(v) ==
    /\ v.top = "obj" /\ v.cl = "obj" /\ v.lr = "obj"
    /\ v.key \notin {None, ""}
    /\ v.iv \notin {None, ""}
\* The voucher parses to an object whose nested fields, where present, are objects
NestedObjects(v) ==
    /\ v.top = "obj"
    /\ v.cl \in {"absent", "obj"}
    /\ v.cl = "obj" => v.lr \in {"absent", "obj"}

\* C9: credential extraction returns the voucher's key and iv exactly when
\* the voucher exists and holds a non-empty key and a non-empty iv; it fails
\* with "Voucher file not found" when the file does not exist, and on the
\* file's content when key or iv is absent or empty (with "Could not find
\* key/iv" whenever the nested fields are objects); every failure ends the
\* run Failed with ffmpeg never launched.
C9_CredentialExtraction ==
    (credentials # NoCredentials /\ ~cleanup.ran) =>
        LET voucher_file == with_suffix(aaxc_file, EXT_VOUCHER)
            v == vdata[voucher_file]
        IN /\ credentials.ok <=> (voucher_file \in dir /\ HasKeyAndIv(v))
           /\ credentials.ok => credentials.key = v.key /\ credentials.iv = v.iv
           /\ voucher_file \notin dir =>
                /\ credentials.exc = "ClickException"
                /\ credentials.msg = "Voucher file not found"
           /\ (voucher_file \in dir /\ ~HasKeyAndIv(v)) =>
                /\ credentials.exc # ""
                /\ credentials.msg # "Voucher file not found"
                /\ NestedObjects(v) =>
                    /\ credentials.exc = "ClickException"
                    /\ credentials.msg = "Could not find key/iv in voucher file"
           /\ ~credentials.ok =>
                /\ pc = "Failed"
                /\ error = "CredentialsFailed"
                /\ exit_code = 1
                /\ ~dec.ran
                /\ PipelineCmds = <<"audible download">>

\* A voucher without a key: extraction failed and the run ended
C9_Witness ==
    /\ ~credentials.ok
    /\ credentials.msg = "Could not find key/iv in voucher file"
    /\ aaxc_file # NoPath
    /\ vdata[with_suffix(aaxc_file, EXT_VOUCHER)].lr = "obj"
    /\ vdata[with_suffix(aaxc_file, EXT_VOUCHER)].key = None
    /\ vdata[with_suffix(aaxc_file, EXT_VOUCHER)].iv = IV
    /\ pc = "Failed"

\* ceil(total / page_size) - 1
LastPage == (Len(library_data) + page_size - 1) \div page_size - 1
Browsing == pc \in {"display", "prompt"}

\* C10: at every display cycle of a browsing session the page index lies in
\* [0, ceil(total/page_size) - 1] and the page is not empty; 'next' on the
\* last page and 'previous' on page 0 leave the index unchanged, otherwise
\* they change it by exactly +1 and -1.
C10_PageIndex ==
    /\ [](Browsing =>
            /\ library_data # <<>>
            /\ page_size >= 1
            /\ 0 <= page_num
            /\ page_num <= LastPage
            /\ page_data # <<>>)
    /\ [][pc = "prompt" =>
            /\ user_input' = <<"n">> =>
                page_num' = IF page_num = LastPage THEN page_num ELSE page_num + 1
            /\ user_input' = <<"p">> =>
                page_num' = IF page_num = 0 THEN page_num ELSE page_num - 1
            /\ user_input' \notin {<<"n">>, <<"p">>} => page_num' = page_num]_vars

\* 'next' was answered and the session shows the last of several pages
C10_Witness ==
    /\ pc = "display"
    /\ user_input = <<"n">>
    /\ page_num = LastPage
    /\ page_num >= 1

\* C11: the page displayed at index k holds exactly the entries at 1-based
\* positions k*P+1 .. min((k+1)*P, N) of the full sorted list, in list
\* order, each with its position in the full list as its row number.
C11_PageContent ==
    pc = "prompt" =>
        LET N == Len(library_data)
            first == page_num * page_size + 1
            last == IF (page_num + 1) * page_size < N THEN (page_num + 1) * page_size ELSE N
        IN /\ first <= last
           /\ Len(shown) = last - first + 1
           /\ \A i \in 1..Len(shown) :
                /\ shown[i].row = first + i - 1
                /\ shown[i].item = library_data[first + i - 1]

\* A short last page is displayed after a full one
C11_Witness ==
    /\ pc = "prompt"
    /\ page_num >= 1
    /\ Len(shown) >= 1
    /\ Len(shown) < page_size
    /\ shown[1].row = Len(library_data)

\* An answer that names a row of the full list: ASCII digits, 1 <= n <= total
RowNumber(u) ==
    /\ u # <<>>
    /\ \A i \in 1..Len(u) : u[i] \in DOMAIN DigitValue
    /\ 1 <= int(u)
    /\ int(u) <= Len(library_data)

\* C12 as stated: in a browsing session the Orchestrator is invoked at most
\* once, and only on a row number n with 1 <= n <= total, with the
\* identifier of the n-th entry of the full list, and the loop ends; a number
\* out of bounds or any unrecognized input leaves entry list, page size and
\* page index unchanged and re-prompts; 'quit' ends the session with the
\* Orchestrator never invoked.
C12_AsStated ==
    /\ [](orch_calls <= 1 /\ (pc = "Quit" => orch_calls = 0))
    /\ [][IF pc = "prompt"
          THEN IF RowNumber(user_input')
               THEN /\ orch_calls' = orch_calls + 1
                    /\ asin' = library_data[int(user_input')].asin
                    /\ pc' \notin {"display", "prompt"}
               ELSE IF user_input' = <<"q">>
               THEN pc' = "Quit" /\ orch_calls' = orch_calls
               ELSE IF user_input' \in {<<"n">>, <<"p">>}
               THEN pc' = "display" /\ orch_calls' = orch_calls
               ELSE /\ pc' = "display"
                    /\ UNCHANGED <<library_data, page_size, page_num, orch_calls>>
          ELSE orch_calls' = orch_calls]_vars

\* The listing command was launched and gave no record (it failed, or its
\* output parsed to nothing)
ListingUnusable == "audible library list" \in Range(cmds) /\ library_data = <<>>

\* C13: when the listing command exits non-zero or its output yields zero
\* parsed records, the browser ends with a non-zero outcome before the sort
\* question (page_size is read right after it), before any page is
\* displayed, before any operator input is read, and the Orchestrator is
\* never invoked.
C13_ListingFailure ==
    /\ ListingUnusable =>
        /\ pc = "Failed"
        /\ exit_code = 1
        /\ error \in {"ListingFailed", "NoBooks", "Uncaught FileNotFoundError"}
        /\ page_size = 0
        /\ page_num = 0
        /\ shown = <<>>
        /\ user_input = <<>>
        /\ orch_calls = 0
        /\ asin = <<>>
        /\ PipelineCmds = <<>>
    /\ error \in {"ListingFailed", "NoBooks"} => ListingUnusable

\* The listing command succeeded and none of its lines parsed to a record
C13_Witness ==
    /\ error = "NoBooks"
    /\ ListingUnusable
    /\ pc = "Failed"
    /\ exit_code = 1

\* The direction in force: the configured one when confirmed, the opposite
\* one when declined
EffectiveDirection ==
    IF sorting.confirm THEN sorting.sort_order
    ELSE IF sorting.sort_order = "newest_first" THEN "oldest_first" ELSE "newest_first"

\* C14: for both configured sort values and both answers, the browsed list
\* is the reverse of the parsed listing exactly when the effective direction
\* is newest-first, and the parsed listing itself otherwise.
C14_SingleReversal ==
    sorting # NoSort =>
        LET n == Len(sorting.listed) IN
        /\ sorting.sort_order \in {"newest_first", "oldest_first"}
        /\ Len(library_data) = n
        /\ IF EffectiveDirection = "newest_first"
           THEN \A i \in 1..n : library_data[i] = sorting.listed[n + 1 - i]
           ELSE library_data = sorting.listed

\* The operator declined oldest-first and the list of several entries was
\* reversed
C14_Witness ==
    /\ sorting # NoSort
    /\ sorting.sort_order = "oldest_first"
    /\ ~sorting.confirm
    /\ Len(library_data) >= 2
    /\ library_data # sorting.listed
    /\ library_data[1] = sorting.listed[Len(sorting.listed)]

\* t is s without its leading and trailing whitespace
IsTrimOf(t, s) ==
    \E i \in 1..(Len(s) + 1), j \in 0..Len(s) :
        /\ i <= j + 1
        /\ t = SubSeq(s, i, j)
        /\ \A k \in (1..(i - 1)) \cup ((j + 1)..Len(s)) : s[k] \in Whitespace
        /\ t # <<>> => t[1] \notin Whitespace /\ t[Len(t)] \notin Whitespace
ColonsIn(line) == {i \in 1..Len(line) : line[i] = ":"}
FirstColon(line) == CHOOSE i \in ColonsIn(line) : \A j \in ColonsIn(line) : i <= j
SecondColon(line) ==
    CHOOSE i \in ColonsIn(line) \ {FirstColon(line)} :
        \A j \in ColonsIn(line) \ {FirstColon(line)} : i <= j
HasNonBlank(line) == \E i \in 1..Len(line) : line[i] \notin Whitespace

\* C15: every line with at least two colons yields one record: identifier
\* the text before the first colon, author the text between the first and
\* the second, title the whole remainder with its further colons (each
\* without surrounding whitespace); a line with fewer than two colons yields
\* no record, only a warning; records keep the order of their lines.
C15_ListingParse ==
    pc = "parsed" =>
        LET entries == SelectSeq(arg.lines, LAMBDA l : Cardinality(ColonsIn(l)) >= 2)
            others == {i \in 1..Len(arg.lines) : Cardinality(ColonsIn(arg.lines[i])) < 2}
        IN /\ Len(ret.data) = Len(entries)
           /\ \A i \in 1..Len(entries) :
                LET line == entries[i]
                    c1 == FirstColon(line)
                    c2 == SecondColon(line)
                IN /\ IsTrimOf(ret.data[i].asin, SubSeq(line, 1, c1 - 1))
                   /\ Len(ret.data[i].authors) = 1
                   /\ IsTrimOf(ret.data[i].authors[1].name, SubSeq(line, c1 + 1, c2 - 1))
                   /\ IsTrimOf(ret.data[i].title, SubSeq(line, c2 + 1, Len(line)))
           /\ ret.warned <= Cardinality({i \in others : arg.lines[i] # <<>>})
           /\ ret.warned >= Cardinality({i \in others : HasNonBlank(arg.lines[i])})

\* A title that holds a colon was kept whole, after a line that gave only a
\* warning
C15_Witness ==
    /\ pc = "parsed"
    /\ Len(arg.lines) = 3
    /\ arg.lines[1] = <<"D", ":", "a">>
    /\ ret.warned = 1
    /\ Len(ret.data) = 2
    /\ ret.data[1].asin = <<"C">>
    /\ ret.data[1].title = <<"t", ":", " ", "u">>
    /\ ret.data[2].asin = <<"B">>

HasMarker(s) == \E i \in 1..Len(s) : MarkerAt(s, i)

\* C16: when the artifact's stem holds a license marker, BaseName is the
\* stem cut at the leftmost marker and the call warns of nothing; when it
\* holds none, BaseName is the whole stem and the call gives exactly one
\* warning.
C16_BaseNameRule ==
    \A i \in 1..Len(ret) :
        LET s == SubSeq(aaxc_file, 1, Len(aaxc_file) - Len(EXT_AAXC))
        IN /\ ret[i].base_name = arg.base
           /\ IF HasMarker(s)
              THEN /\ ret[i].base_name = BaseName(s)
                   /\ Len(ret[i].base_name) < Len(s)
                   /\ ~HasMarker(ret[i].base_name)
                   /\ ret[i].warned = 0
              ELSE /\ ret[i].base_name = s
                   /\ ret[i].warned = 1
           /\ warnings = IF HasMarker(s) THEN 0 ELSE Len(ret)

\* A stem without a marker: the whole stem, one warning
C16_Witness ==
    /\ pc = "derived"
    /\ aaxc_file = <<"f", "-", "a", "a", "x">> \o EXT_AAXC
    /\ ret[1].base_name = <<"f", "-", "a", "a", "x">>
    /\ ret[1].warned = 1
    /\ warnings = 1

BelongsTo(f, a) == f \in FilesOf(a) \cup {OutputOf(a)}

\* C18 as stated: the artifact a run decrypts, verifies and cleans up is the
\* artifact its own download produced for the requested identifier, never
\* one an earlier run left in the directory.
C18_AsStated ==
    aaxc_file # NoPath =>
        /\ aaxc_file \in download.written
        /\ aaxc_file \in FilesOf(asin)

\* C19 as stated: when a run has ended, a file this run wrote at the
\* decrypted-output target path (none was there when ffmpeg was launched)
\* exists only if it passed verification in this run; a run that fails in
\* the Decrypting stage leaves no partial or empty output there.
C19_AsStated ==
    (pc \in {"Failed", "Done"} /\ dec.ran /\ ~dec.before) =>
        /\ with_suffix(aaxc_file, EXT_M4B) \in dir => verified = "true"
        /\ FailedDecrypt => with_suffix(aaxc_file, EXT_M4B) \notin dir

\* C20 as stated: a successful run with keep_files false deletes only files
\* of the book its artifact belongs to, never another book's artifact,
\* voucher, chapters file, cover image or decrypted output.
C20_AsStated ==
    (pc = "Done" /\ ~keep_files) =>
        \A a \in {B1, B2} : aaxc_file \in FilesOf(a) =>
            \A f \in unlinked : BelongsTo(f, a)

=============================================================================
